---- MODULE Spec2Model ----
(***************************************************************************)
(* The 4PM Store: the order-creation handler (server/controllers/order.js) *)
(* and the discount-code helpers (server/controllers/admin-controls.js).   *)
(*                                                                         *)
(* Every store call of createNewOrder is asynchronous, so one request is   *)
(* a chain of steps (pc) and several requests interleave between steps.    *)
(* A step is "the awaited store call settles, and the .then callback that  *)
(* receives its result runs to completion".                                *)
(*                                                                         *)
(* Amounts are integers in thousandths of a paise, so that 0.1 * x and     *)
(* toFixed(2) are exact decimal computations.                              *)
(***************************************************************************)
EXTENDS Integers, Sequences, FiniteSets, TLC

\* ---------------------------------------------------------------- bounds
MaxRequests == 2          \* createNewOrder requests in one behaviour
MaxAdminCodes == 1        \* codes issued through the admin route

\* ------------------------------------------------------------- constants
NTH_ORDER_COUNT == 2      \* process.env.NTH_ORDER_COUNT
discountPercent == 10     \* const discountPercent = 10

Reqs == 1..MaxRequests

Undefined == "undefined"
ItemIds == {"i1", "i2"}

Paise(n) == n * 1000

\* JavaScript values that are either a Number or an ObjectId
Num(n) == [t |-> "number", v |-> n]
Oid(n) == [t |-> "ObjectId", v |-> n]
Undef == [t |-> "undefined", v |-> 0]

\* code ids are 1, 2, ... (the n-th ObjectId the registry generated);
\* 0 stands for `undefined`
NoCode == 0

VARIABLES
  items,          \* Item collection: itemId -> [availableQty, priceInPaise, purchasedCount]
  orders,         \* Order collection, in insertion order
  discountCodes,  \* DiscountCode collection, in insertion order
  req,            \* per request: position in the promise chain and the handler's locals
  globalItemQty,  \* what the free identifier `itemQty` (order.js:65) resolves to:
                  \* <<>> when the global object has no such property, else <<value>>
  admin,          \* the admin route: codes issued so far, outcome of the last call
  validation,     \* the last validateDiscountCode call: its argument and how it settled
  reports         \* the admin totals routes: what their calls were answered

vars == <<items, orders, discountCodes, req, globalItemQty, admin, validation, reports>>

\* ------------------------------------------------------------ request input
\* the catalog the server starts with
Catalog ==
  [ i \in ItemIds |->
      IF i = "i1"
        THEN [availableQty |-> 1, priceInPaise |-> 5, purchasedCount |-> 0]
        ELSE [availableQty |-> 2, priceInPaise |-> 12, purchasedCount |-> 0] ]

\* one line of req.body.itemsList: {itemId, itemQty} as documented; with
\* withId the client also sends the catalog row's _id.  Quantities are the
\* two sides of the stock boundary: all that is left, and one more.
LinesOf(i, withId) ==
  { [itemId |-> i, itemQty |-> q, _id |-> IF withId THEN i ELSE Undefined] :
      q \in { Catalog[i].availableQty, Catalog[i].availableQty + 1 } }

\* a line that names an item the catalog does not have
UnknownItemId == "ix"
UnknownLine(withId) ==
  [itemId |-> UnknownItemId, itemQty |-> 1,
   _id |-> IF withId THEN UnknownItemId ELSE Undefined]

\* req.body.itemsList: at most one line per item, in catalog order, the
\* unknown item last; a missing list behaves as the empty one at order.js:25
ItemsLists ==
  { <<>> }
  \cup UNION { { <<a>> : a \in LinesOf("i1", w) \cup LinesOf("i2", w) }
               \cup { <<a, b>> : a \in LinesOf("i1", w), b \in LinesOf("i2", w) }
               \cup { <<UnknownLine(w)>> }
               \cup { <<a, UnknownLine(w)>> : a \in LinesOf("i1", w) \cup LinesOf("i2", w) }
               : w \in BOOLEAN }

\* the global object either has no property itemQty or has one
GlobalItemQtys == { <<>>, <<1>> }

\* ------------------------------------------------------------------ helpers
\* Number.prototype.toFixed(2): round to two decimals
ToFixed2(x) == ((x + 5) \div 10) * 10

\* Item.aggregate([$match {_id: {$in: ids}}, $project ...]): ids of the rows returned
ItemAggregate(catalog, itemsList) ==
  { itemsList[k].itemId : k \in 1..Len(itemsList) } \cap DOMAIN catalog

\* itemsList.forEach of order.js:54-66, from line k on, acc = orderValueInPaiseBeforeDiscount
RECURSIVE PriceItems(_, _, _, _, _, _)
PriceItems(catalog, gQty, itemsList, dbItemsList, k, acc) ==
  IF k > Len(itemsList) THEN [error |-> "none", value |-> acc]
  ELSE LET item == itemsList[k]
           \* dbItemsList.find((dbItem) => dbItem._id.equals(item._id))
           found == item._id \in dbItemsList
       IN IF found /\ catalog[item._id].availableQty < item.itemQty
            THEN [error |-> "InsufficientStock", value |-> acc]
          ELSE IF ~found
            THEN [error |-> "TypeError", value |-> acc]       \* dbItem.priceInPaise of undefined
          ELSE IF gQty = <<>>
            THEN [error |-> "ReferenceError", value |-> acc]  \* itemQty is not defined
          ELSE PriceItems(catalog, gQty, itemsList, dbItemsList, k + 1,
                          acc + Paise(catalog[item._id].priceInPaise) * gQty[1])

\* ---------------------------------------------------------------- the state
NewReq ==
  [ pc |-> "idle",
    itemsList |-> <<>>,
    orderValueInPaiseBeforeDiscount |-> 0,
    orderValueInPaiseAfterDiscount |-> 0,
    discountAmount |-> 0,
    currentOrderCount |-> 0,
    discountCode |-> NoCode,
    invoiceRequest |-> [orderId |-> 0, amount |-> 0],   \* what generateInvoice was called with
    response |-> "none",         \* "none" | "200" | "500"
    error |-> "none" ]           \* what the chain (or the try block) failed with

\* the outcome of a validateDiscountCode call: the promise resolves with
\* {validCode, discountPercent} or rejects; found = findOne returned a document
ValidationOf(code, settled, found, validCode, percent) ==
  [ code |-> code, settled |-> settled, found |-> found,
    validCode |-> validCode, discountPercent |-> percent ]

NoValidation == ValidationOf([t |-> "none", v |-> 0], "none", FALSE, FALSE, Undef)

\* no totals route has been called: whether the object Model.aggregate()
\* returns has a toArray method is not known yet
NoReports ==
  [ toArray |-> "unknown",
    purchaseEmpty |-> "notCalled",    \* answer to totalPurchaseAmount over zero orders
    purchaseFailed |-> "notCalled",   \* answer to totalPurchaseAmount whose query failed
    last |-> [route |-> "none", response |-> "none", total |-> 0] ]

Init ==
  /\ items = Catalog
  /\ orders = <<>>
  /\ discountCodes = <<>>
  /\ req = [ r \in Reqs |-> NewReq ]
  /\ globalItemQty \in GlobalItemQtys
  /\ admin = [issued |-> 0, outcome |-> "none"]
  /\ validation = NoValidation
  /\ reports = NoReports

\* the handler is over: its locals are gone; what was sent, what it failed
\* with, the code it was issued and (once its order is in the store) the
\* position it computed are kept to state properties about it
Settled(rq, pc, response, err) ==
  [NewReq EXCEPT !.pc = pc, !.response = response, !.error = err,
                 !.currentOrderCount =
                    IF rq.pc = "invoice" THEN rq.currentOrderCount ELSE 0,
                 !.discountCode = rq.discountCode]

\* a rejection of the promise chain: nothing catches it (no .catch, and the
\* try block of order.js:17 has already been left), so no response is sent
Rejected(r, err) ==
  req' = [req EXCEPT ![r] = Settled(req[r], "unhandled", "none", err)]

\* ------------------------------------------------------------ createNewOrder
\* (mutant) the list is not tested before the catalog is queried
EmptyItemsList_Unchecked(itemsList) == FALSE

\* order.js:25: !itemsList?.length
EmptyItemsList(itemsList) == Len(itemsList) = 0

\* (mutant) an empty catalog result is not tested
NoItemsFound_Unchecked(dbItemsList) == FALSE

\* order.js:46: !dbItemsList?.length
NoItemsFound(dbItemsList) == dbItemsList = {}

\* order.js:17-44: the synchronous part, up to the catalog query being issued
CreateNewOrder(r, itemsList) ==
  /\ req[r].pc = "idle"
  \* requests are numbered in the order they arrive
  /\ \A q \in Reqs : q < r => req[q].pc # "idle"
  /\ IF EmptyItemsList(itemsList)
       THEN req' = [req EXCEPT ![r] = Settled(req[r], "responded", "500", "NoItems")]
       ELSE req' = [req EXCEPT ![r].pc = "aggregate", ![r].itemsList = itemsList]
  /\ UNCHANGED <<items, orders, discountCodes, globalItemQty, admin, validation, reports>>

\* order.js:30-70: Item.aggregate settles; first .then
ItemAggregateThen(r, ok) ==
  /\ req[r].pc = "aggregate"
  /\ IF ~ok THEN Rejected(r, "DependencyFailure")
     ELSE LET dbItemsList == ItemAggregate(items, req[r].itemsList)
              priced == PriceItems(items, globalItemQty, req[r].itemsList, dbItemsList, 1, 0)
          IN IF NoItemsFound(dbItemsList) THEN Rejected(r, "ItemsNotFound")
             ELSE IF priced.error # "none" THEN Rejected(r, priced.error)
             ELSE req' = [req EXCEPT ![r].pc = "count",
                                     ![r].orderValueInPaiseBeforeDiscount = priced.value]
  /\ UNCHANGED <<items, orders, discountCodes, globalItemQty, admin, validation, reports>>

\* (mutant) the count is tested without the + 1 of order.js:76
Eligible_CountNotIncremented(existingOrdersCount) ==
  existingOrdersCount % NTH_ORDER_COUNT = 0

\* the eligibility test of order.js:76-77
Eligible(existingOrdersCount) == (existingOrdersCount + 1) % NTH_ORDER_COUNT = 0

\* order.js:79: 0.1 * orderValueInPaiseBeforeDiscount
DiscountOf(before) == (before * discountPercent) \div 100

\* (mutant) the discount is computed but not subtracted
AfterDiscount_NotSubtracted(before, discount) == before

\* order.js:80-81 and 90: orderValueInPaiseAfterDiscount
AfterDiscount(before, discount) == before - discount

\* order.js:98-116: third .then, the Order document handed to order.save()
ThirdThen(r, rq, code) ==
  [rq EXCEPT !.pc = "orderSave",
             !.discountCode = code,
             !.orderValueInPaiseAfterDiscount = ToFixed2(rq.orderValueInPaiseAfterDiscount),
             !.orderValueInPaiseBeforeDiscount = ToFixed2(rq.orderValueInPaiseBeforeDiscount)]

\* order.js:69-92: Order.countDocuments settles; second .then.  When the order
\* is not eligible the callback returns undefined and the third .then follows
\* with discountCode undefined.
CountDocumentsThen(r, ok) ==
  /\ req[r].pc = "count"
  /\ IF ~ok THEN Rejected(r, "DependencyFailure")
     ELSE LET existingOrdersCount == Len(orders)
              before == req[r].orderValueInPaiseBeforeDiscount
              counted == [req[r] EXCEPT !.currentOrderCount = existingOrdersCount + 1]
          IN IF Eligible(existingOrdersCount)
               THEN req' = [req EXCEPT ![r] =
                      [counted EXCEPT
                         !.pc = "codeSave",
                         !.discountAmount = DiscountOf(before),
                         !.orderValueInPaiseAfterDiscount =
                            AfterDiscount(before, DiscountOf(before))]]
               ELSE req' = [req EXCEPT ![r] =
                      ThirdThen(r,
                        [counted EXCEPT
                           !.orderValueInPaiseAfterDiscount = AfterDiscount(before, 0)],
                        NoCode)]
  /\ UNCHANGED <<items, orders, discountCodes, globalItemQty, admin, validation, reports>>

\* admin-controls.js:16-44: the document createDiscountCodeHelper saves.  The
\* helper has ONE parameter, discountPercent (default 10); further arguments
\* are dropped, so the document has no discountAmount and no order reference.
NewDiscountCode(id, firstArg) ==
  [ _id |-> id, discountPercent |-> firstArg, status |-> "ACTIVE",
    discountAmount |-> Undef, orderId |-> Undef ]

\* order.js:84-88 calls createDiscountCodeHelper(orderId, discountPercent,
\* discountAmount): the helper's first argument is the order id
HelperArgOfOrder(r) == Oid(r)

\* admin-controls.js:29-38 then order.js:93-116: discountCode.save() settles.
\* The DiscountCode schema is not among the sources: the save either stores
\* the document (resolving with its id) or rejects.
DiscountCodeSaveThen(r, ok) ==
  /\ req[r].pc = "codeSave"
  /\ IF ~ok
       THEN /\ Rejected(r, "DependencyFailure")
            /\ UNCHANGED discountCodes
       ELSE LET id == Len(discountCodes) + 1
            IN /\ discountCodes' = Append(discountCodes,
                                          NewDiscountCode(id, HelperArgOfOrder(r)))
               /\ req' = [req EXCEPT ![r] = ThirdThen(r, req[r], id)]
  /\ UNCHANGED <<items, orders, globalItemQty, admin, validation, reports>>

\* order.js:104-114: the Order document of request r (orderId is the request's
\* own fresh ObjectId, written r here)
OrderDoc(r) ==
  [ _id |-> r,
    status |-> "CREATED",
    orderValueInPaiseAfterDiscount |-> req[r].orderValueInPaiseAfterDiscount,
    orderValueInPaiseBeforeDiscount |-> req[r].orderValueInPaiseBeforeDiscount,
    discountAmount |-> req[r].discountAmount,
    discountCode |-> req[r].discountCode ]

\* (mutant) the invoice is asked for the value before the discount
InvoiceRequest_BeforeDiscount(r) ==
  [orderId |-> r, amount |-> req[r].orderValueInPaiseBeforeDiscount]

\* order.js:123-126: the arguments of PaymentsController.generateInvoice
InvoiceRequest(r) ==
  [orderId |-> r, amount |-> req[r].orderValueInPaiseAfterDiscount]

\* (mutant) saving the order also books the purchase on the catalog rows
OrderSaveThen_BooksPurchase(r, ok) ==
  /\ req[r].pc = "orderSave"
  /\ IF ~ok
       THEN /\ Rejected(r, "DependencyFailure")
            /\ UNCHANGED <<orders, items>>
       ELSE /\ orders' = Append(orders, OrderDoc(r))
            /\ items' = [ i \in DOMAIN items |->
                            IF i \in ItemAggregate(items, req[r].itemsList)
                              THEN [items[i] EXCEPT !.purchasedCount = @ + 1]
                              ELSE items[i] ]
            /\ req' = [req EXCEPT ![r].pc = "invoice",
                                   ![r].invoiceRequest = InvoiceRequest(r)]
  /\ UNCHANGED <<discountCodes, globalItemQty, admin, validation, reports>>

\* order.js:116-127: order.save() settles; fourth .then asks for the invoice
OrderSaveThen(r, ok) ==
  /\ req[r].pc = "orderSave"
  /\ IF ~ok
       THEN /\ Rejected(r, "DependencyFailure")
            /\ UNCHANGED orders
       ELSE /\ orders' = Append(orders, OrderDoc(r))
            /\ req' = [req EXCEPT ![r].pc = "invoice",
                                   ![r].invoiceRequest = InvoiceRequest(r)]
  /\ UNCHANGED <<items, discountCodes, globalItemQty, admin, validation, reports>>

\* order.js:123-143: generateInvoice settles; fifth .then sends the response
GenerateInvoiceThen(r, ok) ==
  /\ req[r].pc = "invoice"
  /\ IF ~ok
       THEN Rejected(r, "DependencyFailure")
       ELSE req' = [req EXCEPT ![r] = Settled(req[r], "responded", "200", "none")]
  /\ UNCHANGED <<items, orders, discountCodes, globalItemQty, admin, validation, reports>>

\* ------------------------------------------------------- createDiscountCode
\* admin-controls.js:51-76: the admin route; the helper is called with no
\* argument, so discountPercent takes its default, 10
createDiscountCode(userIsAdmin, ok) ==
  /\ admin.issued < MaxAdminCodes
  /\ IF ~userIsAdmin \/ ~ok
       THEN /\ admin' = [admin EXCEPT !.outcome = "500"]
            /\ UNCHANGED discountCodes
       ELSE /\ discountCodes' = Append(discountCodes,
                                       NewDiscountCode(Len(discountCodes) + 1, Num(10)))
            /\ admin' = [issued |-> admin.issued + 1, outcome |-> "next"]
  /\ UNCHANGED <<items, orders, req, globalItemQty, validation, reports>>

\* ----------------------------------------------------- validateDiscountCode
\* what a caller may pass: the 24-hex string of the n-th id (issued or not),
\* or a string that is no ObjectId
Hex(n) == [t |-> "hex24", v |-> n]
Malformed == [t |-> "malformed", v |-> 0]
CodeStrings == { Hex(n) : n \in 1..(MaxRequests + MaxAdminCodes + 1) } \cup { Malformed }

\* DiscountCode.findOne({_id: id}): the documents with that id
FindOne(codes, n) == { k \in 1..Len(codes) : codes[k]._id = n }

\* admin-controls.js:223-251
validateDiscountCodeResult(codes, code, ok) ==
  IF code.t = "malformed"
    \* new ObjectId(discountCode) throws inside the executor, before findOne
    \* and its .catch exist: the promise rejects
    THEN ValidationOf(code, "rejected", FALSE, FALSE, Undef)
  ELSE IF ~ok
    THEN ValidationOf(code, "resolved", FALSE, FALSE, Undef)
  ELSE LET hit == FindOne(codes, code.v)
       IN IF hit = {} \/ (\A k \in hit : codes[k].status # "ACTIVE")
            THEN ValidationOf(code, "resolved", hit # {}, FALSE, Undef)
            ELSE ValidationOf(code, "resolved", TRUE, TRUE,
                              codes[CHOOSE k \in hit : TRUE].discountPercent)

\* (mutant) a successful validation consumes the code
validateDiscountCode_Consumes(code, ok) ==
  /\ validation' = validateDiscountCodeResult(discountCodes, code, ok)
  /\ discountCodes' =
       [ k \in 1..Len(discountCodes) |->
           IF validation'.validCode /\ discountCodes[k]._id = code.v
             THEN [discountCodes[k] EXCEPT !.status = "USED"]
             ELSE discountCodes[k] ]
  /\ UNCHANGED <<items, orders, req, globalItemQty, admin, reports>>

validateDiscountCode(code, ok) ==
  /\ validation' = validateDiscountCodeResult(discountCodes, code, ok)
  /\ UNCHANGED <<items, orders, discountCodes, req, globalItemQty, admin, reports>>

\* ----------------------------------------------------------- admin totals
\* {$group: {_id: null, total: {$sum: '$field'}}}: a value that is no number
\* adds nothing
NumberOr0(x) == IF x.t = "number" THEN x.v ELSE 0

\* admin-controls.js:120-126: sum of orderValueInPaiseAfterDiscount over all orders
RECURSIVE TotalPurchaseAmount(_)
TotalPurchaseAmount(ords) ==
  IF ords = <<>> THEN 0
  ELSE Head(ords).orderValueInPaiseAfterDiscount + TotalPurchaseAmount(Tail(ords))

\* admin-controls.js:190-196: sum of discountAmount over all discount codes
RECURSIVE TotalDiscountAmount(_)
TotalDiscountAmount(codes) ==
  IF codes = <<>> THEN 0
  ELSE NumberOr0(Head(codes).discountAmount) + TotalDiscountAmount(Tail(codes))

\* admin-controls.js:113-145 and 183-215, the two routes being alike: the
\* answer to a call.  rows = the collection has documents (the $group stage
\* yields one row), total = the sum.  The models are not among the sources:
\* Model.aggregate(...) either has no toArray (TypeError inside the try
\* block, answered 500) or calls the callback later, outside the try block,
\* where both throws (query error, missing total) are answered by nothing.
TotalsResponse(userIsAdmin, mode, ok, rows, total) ==
  IF ~userIsAdmin THEN "500"
  ELSE IF mode = "missing" THEN "500"
  ELSE IF ~ok THEN "none"
  ELSE IF ~rows \/ total = 0 THEN "none"
  ELSE "200"

\* admin-controls.js:112-146
getTotalPurchaseAmount(userIsAdmin, mode, ok) ==
  /\ reports.toArray \in {"unknown", mode}
  /\ LET total == TotalPurchaseAmount(orders)
         response == TotalsResponse(userIsAdmin, mode, ok, orders # <<>>, total)
         queried == userIsAdmin /\ mode = "callback"
     IN reports' =
          [ toArray |-> mode,
            purchaseEmpty |->
              IF userIsAdmin /\ orders = <<>> /\ (ok \/ ~queried)
                THEN response ELSE reports.purchaseEmpty,
            purchaseFailed |->
              IF queried /\ ~ok THEN response ELSE reports.purchaseFailed,
            last |-> [route |-> "purchase", response |-> response,
                      total |-> IF response = "200" THEN total ELSE 0] ]
  /\ UNCHANGED <<items, orders, discountCodes, req, globalItemQty, admin, validation>>

\* admin-controls.js:182-216
getTotalDiscountAmount(userIsAdmin, mode, ok) ==
  /\ reports.toArray \in {"unknown", mode}
  /\ LET total == TotalDiscountAmount(discountCodes)
         response == TotalsResponse(userIsAdmin, mode, ok, discountCodes # <<>>, total)
     IN reports' =
          [ reports EXCEPT
              !.toArray = mode,
              !.last = [route |-> "discount", response |-> response,
                        total |-> IF response = "200" THEN total ELSE 0] ]
  /\ UNCHANGED <<items, orders, discountCodes, req, globalItemQty, admin, validation>>

\* ------------------------------------------------------------ specifications
Next ==
  \/ \E r \in Reqs, l \in ItemsLists : CreateNewOrder(r, l)
  \/ \E r \in Reqs, ok \in BOOLEAN : ItemAggregateThen(r, ok)
  \/ \E r \in Reqs, ok \in BOOLEAN : CountDocumentsThen(r, ok)
  \/ \E r \in Reqs, ok \in BOOLEAN : DiscountCodeSaveThen(r, ok)
  \/ \E r \in Reqs, ok \in BOOLEAN : OrderSaveThen(r, ok)
  \/ \E r \in Reqs, ok \in BOOLEAN : GenerateInvoiceThen(r, ok)

\* the order flow under MaxRequests interleaved requests
Spec == Init /\ [][Next]_vars

\* the registry: both callers of createDiscountCodeHelper, and validation;
\* the order flow runs as far as its first eligible order
RegistryReqs == 1..NTH_ORDER_COUNT

NextRegistry ==
  \/ \E r \in RegistryReqs, l \in ItemsLists : CreateNewOrder(r, l)
  \/ \E r \in RegistryReqs, ok \in BOOLEAN : ItemAggregateThen(r, ok)
  \/ \E r \in RegistryReqs, ok \in BOOLEAN : CountDocumentsThen(r, ok)
  \/ \E r \in RegistryReqs, ok \in BOOLEAN : DiscountCodeSaveThen(r, ok)
  \/ \E r \in RegistryReqs, ok \in BOOLEAN : OrderSaveThen(r, ok)
  \/ \E r \in RegistryReqs, ok \in BOOLEAN : GenerateInvoiceThen(r, ok)
  \/ \E a \in BOOLEAN, ok \in BOOLEAN : createDiscountCode(a, ok)
  \/ \E c \in CodeStrings, ok \in BOOLEAN : validateDiscountCode(c, ok)

SpecRegistry == Init /\ [][NextRegistry]_vars

\* the admin totals routes next to the order flow that fills the stores
ToArrayModes == {"callback", "missing"}

NextReports ==
  \/ \E r \in RegistryReqs, l \in ItemsLists : CreateNewOrder(r, l)
  \/ \E r \in RegistryReqs, ok \in BOOLEAN : ItemAggregateThen(r, ok)
  \/ \E r \in RegistryReqs, ok \in BOOLEAN : CountDocumentsThen(r, ok)
  \/ \E r \in RegistryReqs, ok \in BOOLEAN : DiscountCodeSaveThen(r, ok)
  \/ \E r \in RegistryReqs, ok \in BOOLEAN : OrderSaveThen(r, ok)
  \/ \E r \in RegistryReqs, ok \in BOOLEAN : GenerateInvoiceThen(r, ok)
  \/ \E a \in BOOLEAN, m \in ToArrayModes, ok \in BOOLEAN : getTotalPurchaseAmount(a, m, ok)
  \/ \E a \in BOOLEAN, m \in ToArrayModes, ok \in BOOLEAN : getTotalDiscountAmount(a, m, ok)

SpecReports == Init /\ [][NextReports]_vars

\* ------------------------------------------------------------------ claims
\* what the claims speak of
Settling(r) == req[r].pc \in {"aggregate", "count", "codeSave", "orderSave", "invoice"}
HasSettled(r) == req[r].pc \in {"responded", "unhandled"}
OrdersOf(r) == { k \in 1..Len(orders) : orders[k]._id = r }
PositionOf(k) == req[orders[k]._id].currentOrderCount
Before(k) == orders[k].orderValueInPaiseBeforeDiscount
After(k) == orders[k].orderValueInPaiseAfterDiscount

\* every requested quantity is within the stock of the item the line names
StockSuffices(catalog, itemsList) ==
  \A k \in 1..Len(itemsList) :
    /\ itemsList[k].itemId \in DOMAIN catalog
    /\ itemsList[k].itemQty <= catalog[itemsList[k].itemId].availableQty

\* some line asks for more than the stock of the catalog item it names
ExceedsStock(catalog, itemsList) ==
  \E k \in 1..Len(itemsList) :
    /\ itemsList[k].itemId \in DOMAIN catalog
    /\ itemsList[k].itemQty > catalog[itemsList[k].itemId].availableQty

\* some line names an item without a catalog row, while another line's item has one
UnknownAmongKnown(catalog, itemsList) ==
  /\ \E k \in 1..Len(itemsList) : itemsList[k].itemId \notin DOMAIN catalog
  /\ \E k \in 1..Len(itemsList) : itemsList[k].itemId \in DOMAIN catalog

\* sum over the requested lines of catalog priceInPaise * requested itemQty
RECURSIVE CatalogValue(_, _)
CatalogValue(catalog, itemsList) ==
  IF itemsList = <<>> THEN 0
  ELSE Paise(catalog[Head(itemsList).itemId].priceInPaise) * Head(itemsList).itemQty
       + CatalogValue(catalog, Tail(itemsList))

C4_ValidOrderSucceeds ==
  [][ \A r \in Reqs :
        ( /\ Settling(r)
          /\ req'[r].pc \in {"responded", "unhandled"}
          /\ StockSuffices(items, req[r].itemsList)
          /\ req'[r].error # "DependencyFailure" )
        => /\ req'[r].response = "200"
           /\ \E k \in 1..Len(orders') :
                /\ orders'[k]._id = r
                /\ orders'[k].orderValueInPaiseBeforeDiscount
                     = CatalogValue(items, req[r].itemsList) ]_vars

\* C5: a request with a line whose quantity exceeds the stock of its item
\* fails with InsufficientStockError and leaves no Order record
C5_InsufficientStockFails ==
  [][ \A r \in Reqs :
        ( /\ Settling(r)
          /\ req'[r].pc \in {"responded", "unhandled"}
          /\ ExceedsStock(items, req[r].itemsList)
          /\ req'[r].error # "DependencyFailure" )
        => /\ req'[r].error = "InsufficientStock"
           /\ \A k \in 1..Len(orders') : orders'[k]._id # r ]_vars

C8_AlwaysResponds ==
  \A r \in Reqs : HasSettled(r) => req[r].response \in {"200", "500"}

\* C9: validateDiscountCode never rejects, and resolves {validCode: false}
\* for a code that is malformed or was not found
C9_ValidateNeverRejects ==
  /\ validation.settled # "rejected"
  /\ (validation.settled = "resolved" /\ ~validation.found) => ~validation.validCode

C12_UnknownItemFails ==
  [][ \A r \in Reqs :
        ( /\ Settling(r)
          /\ req'[r].pc \in {"responded", "unhandled"}
          /\ UnknownAmongKnown(items, req[r].itemsList)
          /\ req'[r].error # "DependencyFailure" )
        => /\ req'[r].error = "InsufficientStock"
           /\ \A k \in 1..Len(orders') : orders'[k]._id # r ]_vars

\* C13: a request leaves the handler's synchronous part either with a
\* non-empty list and the catalog query issued, or (missing or empty list)
\* answered 500 with no store call issued and the three stores unchanged
C13_EmptyListRejectedFirst ==
  [][ \A r \in Reqs :
        (req[r].pc = "idle" /\ req'[r].pc # "idle")
        => IF Len(req'[r].itemsList) = 0
             THEN /\ req'[r].pc = "responded"
                  /\ req'[r].response = "500"
                  /\ items' = items /\ orders' = orders /\ discountCodes' = discountCodes
             ELSE req'[r].pc = "aggregate" ]_vars

\* a request was turned away for its empty list while the stores are untouched
C13_Witness ==
  \E r \in Reqs :
    /\ req[r].pc = "responded" /\ req[r].response = "500" /\ req[r].error = "NoItems"
    /\ items = Catalog /\ orders = <<>> /\ discountCodes = <<>>

\* C14: a request that failed validation (insufficient stock, items not
\* found) is answered, and not with the answer a request gets whose catalog,
\* order-count, discount or persistence call failed
C14_ClientErrorsDistinct ==
  \A r \in Reqs :
    (HasSettled(r) /\ req[r].error \in {"InsufficientStock", "ItemsNotFound"})
      => /\ req[r].response # "none"
         /\ \A q \in Reqs :
              (HasSettled(q) /\ req[q].error = "DependencyFailure")
                => req[q].response # req[r].response

\* C15: when the catalog query returns no rows the chain fails with
\* ItemsNotFoundError in that very step: the order count is never read and
\* no Order or DiscountCode is written
C15_ItemsNotFound ==
  [][ \A r \in Reqs :
        ( /\ req[r].pc = "aggregate"
          /\ req'[r].pc # "aggregate"
          /\ req'[r].error # "DependencyFailure"
          /\ ItemAggregate(items, req[r].itemsList) = {} )
        => /\ req'[r].error = "ItemsNotFound"
           /\ req'[r].pc = "unhandled"
           /\ orders' = orders /\ discountCodes' = discountCodes ]_vars

\* a request failed with ItemsNotFoundError and left nothing behind
C15_Witness ==
  \E r \in Reqs :
    /\ req[r].pc = "unhandled" /\ req[r].error = "ItemsNotFound"
    /\ OrdersOf(r) = {} /\ req[r].discountCode = NoCode

\* C16: no step changes a field of an existing DiscountCode (validation only
\* reads), and a validation of the code that the previous validation found
\* valid, finding the document again, resolves with the same result
C16_ValidateReadOnly ==
  [][ /\ \A k \in 1..Len(discountCodes) :
           k <= Len(discountCodes') /\ discountCodes'[k] = discountCodes[k]
      /\ (validation.validCode /\ validation'.code = validation.code /\ validation'.found)
           => validation' = validation ]_vars

\* a code was validated successfully and is still ACTIVE
C16_Witness ==
  /\ validation.settled = "resolved" /\ validation.validCode
  /\ \E k \in 1..Len(discountCodes) :
       /\ discountCodes[k]._id = validation.code.v
       /\ discountCodes[k].status = "ACTIVE"
       /\ discountCodes[k].discountPercent = validation.discountPercent

\* C17: for an admin caller, what totalPurchaseAmount answers over zero
\* orders differs from what it answers when the aggregate query fails
C17_ZeroOrdersDistinct ==
  (reports.purchaseEmpty # "notCalled" /\ reports.purchaseFailed # "notCalled")
    => reports.purchaseEmpty # reports.purchaseFailed

C19_CatalogUntouched ==
  [][ \A i \in DOMAIN items :
        /\ i \in DOMAIN items'
        /\ items'[i].availableQty = items[i].availableQty
        /\ items'[i].purchasedCount = items[i].purchasedCount
        /\ items'[i].priceInPaise = items[i].priceInPaise ]_vars

\* one request has succeeded, another has failed, and the catalog is as it was
C19_Witness ==
  /\ \E r \in Reqs : req[r].response = "200" /\ OrdersOf(r) # {}
  /\ \E r \in Reqs : req[r].pc = "unhandled"
  /\ items = Catalog

\* sum of discountAmount over the Order records
RECURSIVE OrdersDiscountAmount(_)
OrdersDiscountAmount(ords) ==
  IF ords = <<>> THEN 0
  ELSE Head(ords).discountAmount + OrdersDiscountAmount(Tail(ords))

====
